---- MODULE Spec2Model ----
(***************************************************************************)
(* Model of export_stl.py: a FreeCAD macro that, for every configured      *)
(* target label, locates a PartDesign body, reads the per-face colours of  *)
(* its Tip feature, classifies the faces into inlet / outlet / body and    *)
(* writes one STL file per non-empty group.                                *)
(*                                                                         *)
(* Colour channels and the tolerance are written as integers n that stand  *)
(* for the Python float n / 10000 (the binary64 number nearest to that     *)
(* decimal): 1.0 is 10000, 0.9999 is 9999 and COLOR_TOLERANCE, 1e-4, is 1. *)
(* is_color_match computes on those floats, rounding as binary64 does.     *)
(* Error messages are the source's messages without the leading symbol.    *)
(***************************************************************************)
EXTENDS Integers, Sequences, FiniteSets, TLC

(***************************************************************************)
(* Bounds of the model.                                                    *)
(***************************************************************************)
\* longest doc.Objects sequence
MaxObjects == 2
\* longest face sequence given to classify_faces on its own
MaxLen == 3
\* largest channel value given to is_color_match on its own
MaxChan == 3

(***************************************************************************)
(* Configuration (module level constants of the macro).                    *)
(***************************************************************************)
TARGET_LABELS == <<"Hub", "Shroud", "Spiral">>
EXPORT_DIR == "C:\\exports\\stl"
INLET_COLOR == <<10000, 10000, 0>>
OUTLET_COLOR == <<10000, 0, 0>>
COLOR_TOLERANCE == 1

(***************************************************************************)
(* The document model: objects with Label, TypeId, Group and Tip.          *)
(***************************************************************************)
BodyType == "PartDesign::Body"
PartType == "App::Part"
OtherType == "Sketcher::SketchObject"

\* RGBA quadruples as FreeCAD stores them in DiffuseColor
Yellow == <<10000, 10000, 0, 0>>
Red == <<10000, 0, 0, 0>>
White == <<10000, 10000, 10000, 0>>
Orange == <<10000, 5000, 0, 0>>
\* 0.9999 in the red channel of yellow
NearYellow == <<9999, 10000, 0, 0>>

\* shape.Faces of a shape with n faces: opaque face handles in order
FaceSeq(n) == [i \in 1..n |-> i]

\* body.Tip is None
TipNone ==
    [exists |-> FALSE, hasShape |-> FALSE, hasDiffuseColor |-> FALSE,
     Faces |-> <<>>, DiffuseColor |-> <<>>]
\* a Tip object without a Shape attribute
TipNoShape ==
    [exists |-> TRUE, hasShape |-> FALSE, hasDiffuseColor |-> TRUE,
     Faces |-> <<>>, DiffuseColor |-> <<>>]
\* a Tip whose ViewObject has no DiffuseColor attribute
TipNoColor ==
    [exists |-> TRUE, hasShape |-> TRUE, hasDiffuseColor |-> FALSE,
     Faces |-> FaceSeq(1), DiffuseColor |-> <<>>]
Painted(n, cs) ==
    [exists |-> TRUE, hasShape |-> TRUE, hasDiffuseColor |-> TRUE,
     Faces |-> FaceSeq(n), DiffuseColor |-> cs]
\* five faces painted yellow, yellow, red, white, white
TipExample == Painted(5, <<Yellow, Yellow, Red, White, White>>)

Tips ==
    {TipNone, TipNoShape, TipNoColor, TipExample,
     Painted(2, <<NearYellow, NearYellow>>),
     Painted(2, <<Yellow>>),
     Painted(1, <<Yellow, Red>>)}

Obj(type, label, group, tip) ==
    [TypeId |-> type, Label |-> label, Group |-> group, Tip |-> tip]

\* the value of a Python name bound to None
NoObject == Obj("None", "", <<>>, TipNone)

\* labels carried by the top-level objects of the modelled documents
ObjLabels == {"Hub", "Shroud"}

\* objects inside the Group of an App::Part
MemberBody == Obj(BodyType, "Body", <<>>, TipExample)
SecondBody == Obj(BodyType, "Body001", <<>>, TipNone)
MemberSketch == Obj(OtherType, "Sketch", <<>>, TipNone)
\* the Group of an App::Part: empty, without a body, with one body, with two
PartGroups ==
    {<<>>, <<MemberSketch>>, <<MemberBody>>, <<MemberSketch, MemberBody>>,
     <<MemberBody, SecondBody>>}

\* top-level bodies: one labelled Hub with every kind of Tip, a sound one
\* labelled Shroud
Bodies ==
    {Obj(BodyType, "Hub", <<>>, t) : t \in Tips}
    \cup {Obj(BodyType, "Shroud", <<>>, TipExample)}
Parts == {Obj(PartType, l, g, TipNone) : l \in ObjLabels, g \in PartGroups}
Others == {Obj(OtherType, "Hub", <<>>, TipNone)}
Objects == Bodies \cup Parts \cup Others

\* App.ActiveDocument is None
NoDocument == [active |-> FALSE, Objects |-> <<>>]
\* an open document with its Objects
Document(os) == [active |-> TRUE, Objects |-> os]

VARIABLES
    doc,          \* App.ActiveDocument
    pc,           \* position of main
    idx,          \* 1-based index of the label being processed
    dirCreated,   \* os.makedirs(EXPORT_DIR) has run
    lookups,      \* labels handed to find_body_by_label so far
    body,         \* main's local: the body found for the current label
    faces,        \* main's local: faces of the body
    colors,       \* main's local: colours of the body
    inlet_ids, outlet_ids, body_ids,   \* main's locals: the face groups
    processed,    \* labels processed successfully
    failed,       \* (label, message) pairs of the labels that failed
    writes,       \* the files written so far, in order, with the label being processed
    args,         \* arguments of a direct call of a helper function
    ret           \* result of that call

vars ==
    <<doc, pc, idx, dirCreated, lookups, body, faces, colors,
      inlet_ids, outlet_ids, body_ids, processed, failed, writes, args, ret>>

(***************************************************************************)
(* find_body_by_label                                                      *)
(***************************************************************************)
Ok(v) == [ok |-> TRUE, value |-> v, err |-> ""]
Raise(msg) == [ok |-> FALSE, value |-> NoObject, err |-> msg]

\* index of the first object carrying the label, 0 if there is none:
\* the loop leaves at the first object whose Label matches, whatever its type
FirstWithLabel(objs, label) ==
    IF \E i \in 1..Len(objs) : objs[i].Label = label
    THEN CHOOSE i \in 1..Len(objs) :
            /\ objs[i].Label = label
            /\ \A j \in 1..(i - 1) : objs[j].Label # label
    ELSE 0

\* [o for o in part.Group if o.TypeId == "PartDesign::Body"]
BodiesOf(group) == SelectSeq(group, LAMBDA o : o.TypeId = BodyType)

find_body_by_label(d, target_label) ==
    LET i == FirstWithLabel(d.Objects, target_label)
        o == IF i = 0 THEN NoObject ELSE d.Objects[i]
        part == IF o.TypeId = PartType THEN o ELSE NoObject
        bdy == IF o.TypeId = BodyType THEN o ELSE NoObject
    IN  IF bdy # NoObject THEN Ok(bdy)
        ELSE IF part # NoObject
             THEN IF BodiesOf(part.Group) = <<>>
                  THEN Raise("Part '" \o part.Label \o "' has no Body")
                  ELSE Ok(BodiesOf(part.Group)[1])
             ELSE Raise("No Part or Body with Label '" \o target_label \o "' found")

(***************************************************************************)
(* get_face_colors                                                         *)
(***************************************************************************)
\* the message of the RuntimeError raised for unequal counts
CountMismatch(ncolors, nfaces) ==
    "Color count (" \o ToString(ncolors) \o ") does not match face count ("
    \o ToString(nfaces) \o ")"

NoFaces(msg) == [ok |-> FALSE, faces |-> <<>>, colors |-> <<>>, err |-> msg]

\* get_face_colors with the comparison of the two lengths left out
get_face_colors_unchecked(b) ==
    IF ~b.Tip.exists \/ ~b.Tip.hasShape THEN NoFaces("Body has no valid Tip")
    ELSE IF ~b.Tip.hasDiffuseColor THEN NoFaces("Feature has no DiffuseColor")
    ELSE [ok |-> TRUE, faces |-> b.Tip.Faces, colors |-> b.Tip.DiffuseColor, err |-> ""]

get_face_colors(b) ==
    IF ~b.Tip.exists \/ ~b.Tip.hasShape THEN NoFaces("Body has no valid Tip")
    ELSE IF ~b.Tip.hasDiffuseColor THEN NoFaces("Feature has no DiffuseColor")
    ELSE IF Len(b.Tip.DiffuseColor) # Len(b.Tip.Faces)
    THEN NoFaces(CountMismatch(Len(b.Tip.DiffuseColor), Len(b.Tip.Faces)))
    ELSE [ok |-> TRUE, faces |-> b.Tip.Faces, colors |-> b.Tip.DiffuseColor, err |-> ""]

(***************************************************************************)
(* is_color_match and classify_faces                                       *)
(***************************************************************************)
\* Python floats are IEEE 754 binary64 numbers.  A float is modelled by its
\* sign (-1, 0, 1), the exponent exp of its leading bit and its 53-bit
\* significand, split in hi (26 bits) and lo (27 bits): the value is
\* sign * (hi * 2^27 + lo) * 2^(exp - 52).  Exact intermediate results are
\* naturals written as sequences of 27-bit limbs, lowest limb first.
Base == 2^27
FZero == [sign |-> 0, exp |-> 0, hi |-> 0, lo |-> 0]

\* x with zero limbs added up to n limbs
Pad(x, n) == [i \in 1..n |-> IF i <= Len(x) THEN x[i] ELSE 0]

\* x * 2^s
ShiftLeft(x, s) ==
    LET u == s \div 27
        w == 2^(s % 27)
        m == 2^(27 - (s % 27))
    IN  [i \in 1..(Len(x) + u + 1) |->
            LET k == i - u
            IN  (IF 1 <= k /\ k <= Len(x) THEN (x[k] % m) * w ELSE 0)
                + (IF 2 <= k /\ k <= Len(x) + 1 THEN x[k - 1] \div m ELSE 0)]

\* x \div 2^s
ShiftRight(x, s) ==
    LET u == s \div 27
        w == 2^(s % 27)
        m == 2^(27 - (s % 27))
    IN  [i \in 1..Len(x) |->
            LET k == i + u
            IN  (IF k <= Len(x) THEN x[k] \div w ELSE 0)
                + (IF k + 1 <= Len(x) THEN (x[k + 1] % w) * m ELSE 0)]

\* bit s of x, bit 0 being the lowest
BitAt(x, s) ==
    IF s \div 27 + 1 <= Len(x) THEN (x[s \div 27 + 1] \div 2^(s % 27)) % 2 ELSE 0

\* x % 2^s = 0
LowBitsZero(x, s) ==
    /\ \A i \in 1..Len(x) : i <= s \div 27 => x[i] = 0
    /\ s \div 27 + 1 <= Len(x) => x[s \div 27 + 1] % 2^(s % 27) = 0

\* the number of bits of x (0 for zero)
BitLength(x) ==
    IF \A i \in 1..Len(x) : x[i] = 0 THEN 0
    ELSE LET t == CHOOSE i \in 1..Len(x) : x[i] # 0 /\ \A j \in (i + 1)..Len(x) : x[j] = 0
         IN  27 * (t - 1) + (CHOOSE l \in 1..27 : 2^(l - 1) <= x[t] /\ x[t] < 2^l)

\* x + y and x - y (x >= y) on limb sequences of one length: limb i receives
\* a carry when a lower limb generates one and every limb between passes it on
AddLimbs(x, y) ==
    [i \in 1..Len(x) |->
        LET c == IF \E j \in 1..(i - 1) :
                        /\ x[j] + y[j] >= Base
                        /\ \A k \in (j + 1)..(i - 1) : x[k] + y[k] = Base - 1
                 THEN 1 ELSE 0
        IN  (x[i] + y[i] + c) % Base]

SubLimbs(x, y) ==
    [i \in 1..Len(x) |->
        LET c == IF \E j \in 1..(i - 1) :
                        /\ x[j] < y[j]
                        /\ \A k \in (j + 1)..(i - 1) : x[k] = y[k]
                 THEN 1 ELSE 0
        IN  (x[i] - y[i] - c) % Base]

\* round to nearest, ties to even: the float nearest to x * 2^e, sticky
\* telling that the exact number is a little more than x * 2^e
Round(sign, x, e, sticky) ==
    LET n == BitLength(x)
        d == n - 53
    IN  IF n = 0 THEN FZero
        ELSE IF d <= 0
             THEN LET m == ShiftLeft(x, -d)
                  IN  [sign |-> sign, exp |-> e + n - 1, hi |-> m[2], lo |-> m[1]]
             ELSE LET m == ShiftRight(x, d)
                      rest == sticky \/ ~LowBitsZero(x, d - 1)
                      up == BitAt(x, d - 1) = 1 /\ (rest \/ m[1] % 2 = 1)
                      r == IF up THEN AddLimbs(Pad(m, 2), <<1, 0>>) ELSE Pad(m, 2)
                  IN  IF r[2] = 2^26
                      THEN [sign |-> sign, exp |-> e + n, hi |-> 2^25, lo |-> 0]
                      ELSE [sign |-> sign, exp |-> e + n - 1, hi |-> r[2], lo |-> r[1]]

\* the first k binary digits of the fraction r / 10000, and what is left
RECURSIVE FracBits(_, _)
FracBits(r, k) ==
    IF k = 0 THEN <<>>
    ELSE IF r = 0 THEN [i \in 1..k |-> 0]
    ELSE <<(2 * r) \div 10000>> \o FracBits((2 * r) % 10000, k - 1)

RECURSIVE FracRem(_, _)
FracRem(r, k) == IF k = 0 \/ r = 0 THEN r ELSE FracRem((2 * r) % 10000, k - 1)

\* the number of zero digits before the first one of the fraction r / 10000
RECURSIVE LeadingZeros(_)
LeadingZeros(r) == IF 2 * r >= 10000 THEN 0 ELSE 1 + LeadingZeros(2 * r)

\* the natural with the binary digits b, leading digit first
RECURSIVE Value(_)
Value(b) ==
    IF Len(b) = 0 THEN 0 ELSE 2 * Value(SubSeq(b, 1, Len(b) - 1)) + b[Len(b)]

\* the same natural in limbs
Limbs(b) ==
    [i \in 1..((Len(b) + 26) \div 27) |->
        Value(SubSeq(b, IF Len(b) - 27 * i + 1 < 1 THEN 1 ELSE Len(b) - 27 * i + 1,
                     Len(b) - 27 * (i - 1)))]

\* the float that the decimal n / 10000 denotes (a literal such as 1e-4 or
\* 0.9999, a stored channel value): the binary64 number nearest to it
Dec(n) ==
    LET a == IF n < 0 THEN -n ELSE n
        sign == IF n < 0 THEN -1 ELSE 1
        k == IF a % 10000 = 0 THEN 54 ELSE LeadingZeros(a % 10000) + 54
        x == ShiftLeft(Pad(<<a \div 10000>>, 3), k)
        f == Pad(Limbs(FracBits(a % 10000, k)), Len(x))
    IN  Round(sign, AddLimbs(x, f), -k, FracRem(a % 10000, k) # 0)

\* the floats of the values that occur most often, converted once
Floats == [n \in (-1..8) \cup {5000, 5001, 9999, 10000} |-> Dec(n)]
Float(n) == IF n \in DOMAIN Floats THEN Floats[n] ELSE Dec(n)

\* |x| < |y| for floats other than zero
MagLt(x, y) ==
    \/ x.exp < y.exp
    \/ x.exp = y.exp /\ (x.hi < y.hi \/ (x.hi = y.hi /\ x.lo < y.lo))

\* |a| + |b| and |a| - |b| for |a| >= |b| > 0, rounded; a b below a quarter
\* of the last bit of a leaves a unchanged
MagAdd(sign, a, b) ==
    LET s == a.exp - b.exp
        x == ShiftLeft(<<a.lo, a.hi, 0>>, s)
    IN  IF s > 55 THEN [a EXCEPT !.sign = sign]
        ELSE Round(sign, AddLimbs(x, Pad(<<b.lo, b.hi>>, Len(x))), b.exp - 52, FALSE)

MagSub(sign, a, b) ==
    LET s == a.exp - b.exp
        x == ShiftLeft(<<a.lo, a.hi>>, s)
    IN  IF s > 55 THEN [a EXCEPT !.sign = sign]
        ELSE Round(sign, SubLimbs(x, Pad(<<b.lo, b.hi>>, Len(x))), b.exp - 52, FALSE)

Fneg(x) == [x EXCEPT !.sign = -@]

\* abs(x)
Abs(x) == [x EXCEPT !.sign = @ * @]

\* x + y in binary64
Fadd(x, y) ==
    IF x.sign = 0 THEN y
    ELSE IF y.sign = 0 THEN x
    ELSE IF x.sign = y.sign
         THEN IF MagLt(x, y) THEN MagAdd(x.sign, y, x) ELSE MagAdd(x.sign, x, y)
         ELSE IF MagLt(x, y) THEN MagSub(y.sign, y, x)
              ELSE IF MagLt(y, x) THEN MagSub(x.sign, x, y)
              ELSE FZero

\* x - y in binary64
Fsub(x, y) == Fadd(x, Fneg(y))

\* x < y
Flt(x, y) ==
    IF x.sign # y.sign THEN x.sign < y.sign
    ELSE IF x.sign = 0 THEN FALSE
    ELSE IF x.sign = 1 THEN MagLt(x, y)
    ELSE MagLt(y, x)

\* is_color_match with <= in place of <
is_color_match_inclusive(rgb, target, tolerance) ==
    \A i \in 1..3 :
        ~Flt(Float(tolerance), Abs(Fsub(Float(rgb[i]), Float(target[i]))))

\* all(abs(rgb[i] - target[i]) < tolerance for i in range(3))
is_color_match(rgb, target, tolerance) ==
    \A i \in 1..3 :
        Flt(Abs(Fsub(Float(rgb[i]), Float(target[i]))), Float(tolerance))

\* the chain with "if" in place of "elif": the outlet test and its else branch
\* run for every face
GroupOfIfIf(rgb, inlet_color, outlet_color, tolerance) ==
    (IF is_color_match(rgb, inlet_color, tolerance) THEN {"inlet"} ELSE {})
    \cup (IF is_color_match(rgb, outlet_color, tolerance) THEN {"outlet"} ELSE {"body"})

\* the chain with the outlet colour tested first
GroupOfOutletFirst(rgb, inlet_color, outlet_color, tolerance) ==
    IF is_color_match(rgb, outlet_color, tolerance) THEN {"outlet"}
    ELSE IF is_color_match(rgb, inlet_color, tolerance) THEN {"inlet"}
    ELSE {"body"}

\* the group the if / elif / else chain appends the face identifier to
GroupOf(rgb, inlet_color, outlet_color, tolerance) ==
    IF is_color_match(rgb, inlet_color, tolerance) THEN {"inlet"}
    ELSE IF is_color_match(rgb, outlet_color, tolerance) THEN {"outlet"}
    ELSE {"body"}

Groups(i, o, b) == [ok |-> TRUE, inlet |-> i, outlet |-> o, body |-> b, err |-> ""]
\* colors[i] beyond the end of colors
IndexError ==
    [ok |-> FALSE, inlet |-> <<>>, outlet |-> <<>>, body |-> <<>>,
     err |-> "list index out of range"]

AppendIf(list, cond, fid) == IF cond THEN Append(list, fid) ELSE list

\* the loop over range(len(faces)) from the 0-based index i on; acc holds the
\* three lists built so far
RECURSIVE ClassifyLoop(_, _, _, _, _, _, _)
ClassifyLoop(i, fs, cs, inlet_color, outlet_color, tolerance, acc) ==
    IF i >= Len(fs) THEN acc
    ELSE IF i + 1 > Len(cs) THEN IndexError
    ELSE LET fid == i + 1
             rgb == SubSeq(cs[i + 1], 1, 3)
             g == GroupOf(rgb, inlet_color, outlet_color, tolerance)
         IN  ClassifyLoop(i + 1, fs, cs, inlet_color, outlet_color, tolerance,
                          Groups(AppendIf(acc.inlet, "inlet" \in g, fid),
                                 AppendIf(acc.outlet, "outlet" \in g, fid),
                                 AppendIf(acc.body, "body" \in g, fid)))

classify_faces(fs, cs, inlet_color, outlet_color, tolerance) ==
    ClassifyLoop(0, fs, cs, inlet_color, outlet_color, tolerance,
                 Groups(<<>>, <<>>, <<>>))

(***************************************************************************)
(* mesh_faces                                                              *)
(***************************************************************************)
\* a file name without the group suffix
filename_nosuffix(label, suffix) == label \o ".stl"

\* f"{body.Label}_{suffix}.stl"
filename(label, suffix) == label \o "_" \o suffix \o ".stl"

\* os.path.join(export_dir, filename)
path_join(dir, name) == [dir |-> dir, name |-> name]

\* What the geometry kernel, the mesher and the file writer do in one call:
\* every step succeeds, or one of them raises. A write that raises may or may
\* not have left a file behind.
MeshEnvs == {"ok", "transform", "shell", "mesh", "write", "write_partial"}

\* the steps a call with these face ids goes through: Part.Shell is called
\* only for more than one face, and nothing is called for no face at all
EnvsFor(face_ids) ==
    IF face_ids = <<>> THEN {"ok"}
    ELSE IF Len(face_ids) = 1 THEN MeshEnvs \ {"shell"}
    ELSE MeshEnvs

Returned(files) == [raised |-> FALSE, err |-> "", written |-> files]
Thrown(msg, files) == [raised |-> TRUE, err |-> msg, written |-> files]

\* mesh_faces opening the output file before the geometry is built
mesh_faces_write_first(b, fs, face_ids, suffix, export_dir, env) ==
    IF face_ids = <<>> THEN Returned(<<>>)
    ELSE LET path == path_join(export_dir, filename(b.Label, suffix))
         IN  IF env = "transform" THEN Thrown("transformGeometry failed", <<path>>)
             ELSE IF Len(face_ids) # 1 /\ env = "shell"
             THEN Thrown("Part.Shell failed", <<path>>)
             ELSE IF env = "mesh" THEN Thrown("meshFromShape failed", <<path>>)
             ELSE IF env \in {"write", "write_partial"}
             THEN Thrown("mesh.write failed", <<path>>)
             ELSE Returned(<<path>>)

\* mesh_faces catching its own errors and returning normally
mesh_faces_swallow(b, fs, face_ids, suffix, export_dir, env) ==
    IF face_ids = <<>> THEN Returned(<<>>)
    ELSE LET path == path_join(export_dir, filename(b.Label, suffix))
         IN  IF env \in {"transform", "mesh", "write"} THEN Returned(<<>>)
             ELSE IF Len(face_ids) # 1 /\ env = "shell" THEN Returned(<<>>)
             ELSE Returned(<<path>>)

mesh_faces(b, fs, face_ids, suffix, export_dir, env) ==
    IF face_ids = <<>> THEN Returned(<<>>)
    ELSE LET path == path_join(export_dir, filename(b.Label, suffix))
         IN  IF env = "transform" THEN Thrown("transformGeometry failed", <<>>)
             ELSE IF Len(face_ids) # 1 /\ env = "shell"
             THEN Thrown("Part.Shell failed", <<>>)
             ELSE IF env = "mesh" THEN Thrown("meshFromShape failed", <<>>)
             ELSE IF env = "write" THEN Thrown("mesh.write failed", <<>>)
             ELSE IF env = "write_partial" THEN Thrown("mesh.write failed", <<path>>)
             ELSE Returned(<<path>>)

(***************************************************************************)
(* main                                                                    *)
(***************************************************************************)
NoCall == [fn |-> "main"]
NoRet == [done |-> FALSE, value |-> FALSE]

Init ==
    /\ \E n \in 0..MaxObjects : \E os \in [1..n -> Objects] :
          doc \in {NoDocument, Document(os)}
    /\ pc = "start"
    /\ idx = 1
    /\ dirCreated = FALSE
    /\ lookups = <<>>
    /\ body = NoObject
    /\ faces = <<>>
    /\ colors = <<>>
    /\ inlet_ids = <<>>
    /\ outlet_ids = <<>>
    /\ body_ids = <<>>
    /\ processed = <<>>
    /\ failed = <<>>
    /\ writes = <<>>
    /\ args = NoCall
    /\ ret = NoRet

target_label == TARGET_LABELS[idx]

\* where main goes after the iteration for label number i
AfterLabel(i) == IF i + 1 > Len(TARGET_LABELS) THEN "summary" ELSE "find"

\* the files a call of mesh_faces wrote, logged with the label being processed
Logged(files) == [k \in 1..Len(files) |-> [target |-> target_label, path |-> files[k]]]

\* a handler that leaves the loop after recording the failure
ExceptBreak(msg) ==
    /\ failed' = Append(failed, <<target_label, msg>>)
    /\ pc' = "summary"
    /\ idx' = idx

\* except Exception as e: failed.append((target_label, str(e))), then the next label
Except(msg) ==
    /\ failed' = Append(failed, <<target_label, msg>>)
    /\ pc' = AfterLabel(idx)
    /\ idx' = idx + 1

\* os.makedirs(EXPORT_DIR, exist_ok=True): the directory is there afterwards,
\* or the call raises OSError, which main does not catch
Makedirs ==
    /\ pc = "start"
    /\ \E created \in BOOLEAN :
          /\ dirCreated' = created
          /\ pc' = IF created THEN "get_doc" ELSE "aborted"
    /\ UNCHANGED <<doc, idx, lookups, body, faces, colors, inlet_ids, outlet_ids,
                   body_ids, processed, failed, writes, args, ret>>

\* main without the test for a missing document
GetDocumentUnchecked ==
    /\ pc = "get_doc"
    /\ pc' = "find"
    /\ UNCHANGED <<doc, idx, dirCreated, lookups, body, faces, colors, inlet_ids,
                   outlet_ids, body_ids, processed, failed, writes, args, ret>>

\* doc = App.ActiveDocument; without one the RuntimeError leaves main
GetDocument ==
    /\ pc = "get_doc"
    /\ pc' = IF ~doc.active THEN "aborted" ELSE "find"
    /\ UNCHANGED <<doc, idx, dirCreated, lookups, body, faces, colors, inlet_ids,
                   outlet_ids, body_ids, processed, failed, writes, args, ret>>

FindBody ==
    /\ pc = "find"
    /\ lookups' = Append(lookups, target_label)
    /\ LET r == find_body_by_label(doc, target_label)
       IN  IF r.ok
           THEN /\ body' = r.value
                /\ pc' = "colors"
                /\ UNCHANGED <<idx, failed>>
           ELSE /\ Except(r.err)
                /\ UNCHANGED body
    /\ UNCHANGED <<doc, dirCreated, faces, colors, inlet_ids, outlet_ids, body_ids,
                   processed, writes, args, ret>>

GetFaceColors ==
    /\ pc = "colors"
    /\ LET r == get_face_colors(body)
       IN  IF r.ok
           THEN /\ faces' = r.faces
                /\ colors' = r.colors
                /\ pc' = "classify"
                /\ UNCHANGED <<idx, failed>>
           ELSE /\ Except(r.err)
                /\ UNCHANGED <<faces, colors>>
    /\ UNCHANGED <<doc, dirCreated, lookups, body, inlet_ids, outlet_ids, body_ids,
                   processed, writes, args, ret>>

ClassifyFaces ==
    /\ pc = "classify"
    /\ LET r == classify_faces(faces, colors, INLET_COLOR, OUTLET_COLOR, COLOR_TOLERANCE)
       IN  IF r.ok
           THEN /\ inlet_ids' = r.inlet
                /\ outlet_ids' = r.outlet
                /\ body_ids' = r.body
                /\ pc' = "inlet"
                /\ UNCHANGED <<idx, failed>>
           ELSE /\ Except(r.err)
                /\ UNCHANGED <<inlet_ids, outlet_ids, body_ids>>
    /\ UNCHANGED <<doc, dirCreated, lookups, body, faces, colors, processed, writes,
                   args, ret>>

\* mesh_faces(body, faces, inlet_ids, "inlet", ...)
ExportInlet ==
    /\ pc = "inlet"
    /\ \E env \in EnvsFor(inlet_ids) :
         LET r == mesh_faces(body, faces, inlet_ids, "inlet", EXPORT_DIR, env)
         IN  /\ writes' = writes \o Logged(r.written)
             /\ IF r.raised
                THEN Except(r.err)
                ELSE pc' = "outlet" /\ UNCHANGED <<idx, failed>>
    /\ UNCHANGED <<doc, dirCreated, lookups, body, faces, colors, inlet_ids,
                   outlet_ids, body_ids, processed, args, ret>>

\* mesh_faces(body, faces, outlet_ids, "outlet", ...)
ExportOutlet ==
    /\ pc = "outlet"
    /\ \E env \in EnvsFor(outlet_ids) :
         LET r == mesh_faces(body, faces, outlet_ids, "outlet", EXPORT_DIR, env)
         IN  /\ writes' = writes \o Logged(r.written)
             /\ IF r.raised
                THEN Except(r.err)
                ELSE pc' = "body" /\ UNCHANGED <<idx, failed>>
    /\ UNCHANGED <<doc, dirCreated, lookups, body, faces, colors, inlet_ids,
                   outlet_ids, body_ids, processed, args, ret>>

\* mesh_faces(body, faces, body_ids, "body", ...); processed.append(target_label)
ExportBody ==
    /\ pc = "body"
    /\ \E env \in EnvsFor(body_ids) :
         LET r == mesh_faces(body, faces, body_ids, "body", EXPORT_DIR, env)
         IN  /\ writes' = writes \o Logged(r.written)
             /\ IF r.raised
                THEN Except(r.err) /\ UNCHANGED processed
                ELSE /\ processed' = Append(processed, target_label)
                     /\ pc' = AfterLabel(idx)
                     /\ idx' = idx + 1
                     /\ UNCHANGED failed
    /\ UNCHANGED <<doc, dirCreated, lookups, body, faces, colors, inlet_ids,
                   outlet_ids, body_ids, args, ret>>

\* the summary printed after the loop
Summary ==
    /\ pc = "summary"
    /\ pc' = "done"
    /\ UNCHANGED <<doc, idx, dirCreated, lookups, body, faces, colors, inlet_ids,
                   outlet_ids, body_ids, processed, failed, writes, args, ret>>

Next ==
    \/ Makedirs
    \/ GetDocument
    \/ FindBody
    \/ GetFaceColors
    \/ ClassifyFaces
    \/ ExportInlet
    \/ ExportOutlet
    \/ ExportBody
    \/ Summary

Spec == Init /\ [][Next]_vars

(***************************************************************************)
(* Direct calls of the two pure helpers, on inputs from bounded sets.      *)
(***************************************************************************)
\* main is not running during a direct call
Idle ==
    /\ doc = NoDocument
    /\ pc = "call"
    /\ idx = 1
    /\ dirCreated = FALSE
    /\ lookups = <<>>
    /\ body = NoObject
    /\ faces = <<>>
    /\ colors = <<>>
    /\ inlet_ids = <<>>
    /\ outlet_ids = <<>>
    /\ body_ids = <<>>
    /\ processed = <<>>
    /\ failed = <<>>
    /\ writes = <<>>

Chans == 0..MaxChan

MatchCall(c, t, tol) ==
    [fn |-> "is_color_match", rgb |-> c, target |-> t, tolerance |-> tol]

\* the blue channel of the reference is 0, as it is in both configured colours
InitMatch ==
    /\ Idle
    /\ \E c \in [1..4 -> Chans], t \in [1..3 -> Chans], tol \in -1..(MaxChan + 1) :
          /\ c[4] \in {0, MaxChan}
          /\ t[3] = 0
          /\ args = MatchCall(c, t, tol)
    /\ ret = [done |-> FALSE, value |-> FALSE]

CallIsColorMatch ==
    /\ pc = "call"
    /\ args.fn = "is_color_match"
    /\ ret' = [done |-> TRUE,
               value |-> is_color_match(args.rgb, args.target, args.tolerance)]
    /\ pc' = "returned"
    /\ UNCHANGED <<doc, idx, dirCreated, lookups, body, faces, colors, inlet_ids,
                   outlet_ids, body_ids, processed, failed, writes, args>>

NextMatch == CallIsColorMatch

SpecMatch == InitMatch /\ [][NextMatch]_vars

Rgb(c) == SubSeq(c, 1, 3)
Palette == {Yellow, Red, White, Orange, NearYellow}
RefColors == {Rgb(c) : c \in Palette}
Tolerances == {-1, 0, COLOR_TOLERANCE, 5000, 5001}

ClassifyCall(fs, cs, i, o, tol) ==
    [fn |-> "classify_faces", faces |-> fs, colors |-> cs, inlet |-> i, outlet |-> o,
     tolerance |-> tol]

\* yellow, yellow, red, white, white against the configured colours and tolerance
ExampleCall ==
    ClassifyCall(TipExample.Faces, TipExample.DiffuseColor, INLET_COLOR, OUTLET_COLOR,
                 COLOR_TOLERANCE)

InitClassify ==
    /\ Idle
    /\ \/ args = ExampleCall
       \/ \E n \in 0..MaxLen : \E cs \in [1..n -> Palette] :
             \E i \in RefColors, o \in RefColors, tol \in Tolerances :
                args = ClassifyCall(FaceSeq(n), cs, i, o, tol)
    /\ ret = [done |-> FALSE, value |-> Groups(<<>>, <<>>, <<>>)]

CallClassifyFaces ==
    /\ pc = "call"
    /\ args.fn = "classify_faces"
    /\ ret' = [done |-> TRUE,
               value |-> classify_faces(args.faces, args.colors, args.inlet,
                                        args.outlet, args.tolerance)]
    /\ pc' = "returned"
    /\ UNCHANGED <<doc, idx, dirCreated, lookups, body, faces, colors, inlet_ids,
                   outlet_ids, body_ids, processed, failed, writes, args>>

NextClassify == CallClassifyFaces

SpecClassify == InitClassify /\ [][NextClassify]_vars

(***************************************************************************)
(* Properties                                                              *)
(***************************************************************************)
Range(seq) == {seq[k] : k \in 1..Len(seq)}
Count(seq, x) == Cardinality({k \in 1..Len(seq) : seq[k] = x})
Ascending(seq) == \A k \in 1..(Len(seq) - 1) : seq[k] < seq[k + 1]
IsPrefix(p, q) == Len(p) <= Len(q) /\ p = SubSeq(q, 1, Len(p))

\* C1: for faces and colours of equal length n, classify_faces returns three
\* lists that partition 1..n: every identifier occurs exactly once over the
\* three lists, nothing else occurs, and each list is strictly ascending.
C1_Partition ==
    ret.done =>
        LET v == ret.value
            n == Len(args.faces)
        IN  /\ v.ok
            /\ \A id \in 1..n :
                  Count(v.inlet, id) + Count(v.outlet, id) + Count(v.body, id) = 1
            /\ Range(v.inlet) \cup Range(v.outlet) \cup Range(v.body) = 1..n
            /\ Len(v.inlet) + Len(v.outlet) + Len(v.body) = n
            /\ Ascending(v.inlet) /\ Ascending(v.outlet) /\ Ascending(v.body)

\* a call that fills all three lists, one of them with a face that is within
\* tolerance of both reference colours
C1_Witness ==
    /\ ret.done
    /\ ret.value.inlet # <<>> /\ ret.value.outlet # <<>> /\ ret.value.body # <<>>
    /\ \E k \in 1..Len(args.colors) :
          /\ is_color_match(Rgb(args.colors[k]), args.inlet, args.tolerance)
          /\ is_color_match(Rgb(args.colors[k]), args.outlet, args.tolerance)

\* the colour c (RGBA) matches the reference colour
Matches(c, ref, tol) == is_color_match(Rgb(c), ref, tol)

\* C3: the colours are tested in the order inlet, outlet and the first match
\* wins: face k is in the inlet list iff its colour matches the inlet colour,
\* in the outlet list iff it matches the outlet colour and not the inlet
\* colour, in the body list iff it matches neither; the example yellow,
\* yellow, red, white, white gives inlet 1 2, outlet 3, body 4 5.
C3_Priority ==
    ret.done =>
        LET v == ret.value
        IN  /\ \A k \in 1..Len(args.faces) :
                  LET mi == Matches(args.colors[k], args.inlet, args.tolerance)
                      mo == Matches(args.colors[k], args.outlet, args.tolerance)
                  IN  /\ (k \in Range(v.inlet)) <=> mi
                      /\ (k \in Range(v.outlet)) <=> (~mi /\ mo)
                      /\ (k \in Range(v.body)) <=> (~mi /\ ~mo)
            /\ args = ExampleCall =>
                  v = Groups(<<1, 2>>, <<3>>, <<4, 5>>)

\* a face within tolerance of two different reference colours, classified
C3_Witness ==
    /\ ret.done
    /\ args.inlet # args.outlet
    /\ \E k \in 1..Len(args.colors) :
          /\ Matches(args.colors[k], args.inlet, args.tolerance)
          /\ Matches(args.colors[k], args.outlet, args.tolerance)
          /\ k \in Range(ret.value.inlet)
          /\ k \notin Range(ret.value.outlet)

\* the difference of two written values as decimals, in units of 1e-4
Dist(a, b) == IF a < b THEN b - a ELSE a - b
\* the difference of channel ch as the code computes it
Computed(c, t, ch) == Abs(Fsub(Float(c[ch]), Float(t[ch])))

\* C4 as stated, the differences taken of the written decimal values:
\* is_color_match is true iff every one of the three channels differs by
\* strictly less than the tolerance: a difference equal to the tolerance in a
\* channel gives false, a tolerance <= 0 never matches, the alpha component
\* is ignored and swapping candidate and reference changes nothing.
C4_StrictMatch ==
    ret.done =>
        LET c == args.rgb
            t == args.target
            tol == args.tolerance
        IN  /\ ret.value <=> \A ch \in 1..3 : Dist(c[ch], t[ch]) < tol
            /\ (\E ch \in 1..3 : Dist(c[ch], t[ch]) = tol) => ~ret.value
            /\ tol <= 0 => ~ret.value
            /\ \A a \in Chans :
                  is_color_match([c EXCEPT ![4] = a], t, tol) = ret.value
            /\ is_color_match(Rgb(c), t, tol) = ret.value
            /\ is_color_match(t, Rgb(c), tol) = ret.value

\* C4: is_color_match is true iff in every one of the three channels the
\* difference the code computes, abs(rgb[i] - target[i]) in binary floating
\* point, is strictly less than the tolerance: a computed difference equal
\* to the tolerance gives false.  Written decimals that differ by less than
\* the tolerance in every channel match, decimals that differ by more in
\* some channel do not, and decimals that differ by exactly the tolerance
\* may do either.  A tolerance <= 0 never matches, the alpha component is
\* ignored and swapping candidate and reference changes nothing.
C4_ComputedDifference ==
    ret.done =>
        LET c == args.rgb
            t == args.target
            tol == args.tolerance
        IN  /\ ret.value <=> \A ch \in 1..3 : Flt(Computed(c, t, ch), Float(tol))
            /\ (\E ch \in 1..3 : Computed(c, t, ch) = Float(tol)) => ~ret.value
            /\ (\A ch \in 1..3 : Dist(c[ch], t[ch]) < tol) => ret.value
            /\ (\E ch \in 1..3 : Dist(c[ch], t[ch]) > tol) => ~ret.value
            /\ tol <= 0 => ~ret.value
            /\ \A a \in Chans :
                  is_color_match([c EXCEPT ![4] = a], t, tol) = ret.value
            /\ is_color_match(Rgb(c), t, tol) = ret.value
            /\ is_color_match(t, Rgb(c), tol) = ret.value

\* the computed difference of one channel is exactly the (positive)
\* tolerance, the other two are less, alpha is not zero, and the call has
\* returned false
C4_Witness ==
    /\ ret.done /\ ~ret.value
    /\ args.tolerance > 0
    /\ \E ch \in 1..3 :
          /\ Computed(args.rgb, args.target, ch) = Float(args.tolerance)
          /\ \A o \in (1..3) \ {ch} :
                Flt(Computed(args.rgb, args.target, o), Float(args.tolerance))
    /\ args.rgb[4] # 0

(***************************************************************************)
(* Properties of a run of main                                             *)
(***************************************************************************)
NumLabels == Len(TARGET_LABELS)
FailedLabels == [k \in 1..Len(failed) |-> failed[k][1]]
\* how many times a label has been recorded, in either list
Recorded(l) == Count(processed, l) + Count(FailedLabels, l)
\* what the lookup of a label gives in the run's document
Resolved(l) == find_body_by_label(doc, l)
\* the paths written while label l was being processed, in order
WritesOf(l) ==
    LET sel == SelectSeq(writes, LAMBDA w : w.target = l)
    IN  [k \in 1..Len(sel) |-> sel[k].path]
Suffixes == {"inlet", "outlet", "body"}
\* the path <EXPORT_DIR>/<label>_<suffix>.stl, written out
StlPath(label, suffix) ==
    [dir |-> "C:\\exports\\stl", name |-> label \o "_" \o suffix \o ".stl"]
PreWriteErrors == {"transformGeometry failed", "Part.Shell failed", "meshFromShape failed"}

\* main has ended: after the summary, or by an error that left it
Ended == pc \in {"done", "aborted"}

\* C2 as stated: with an active document a failure while processing one
\* label never stops the later labels: the labels are attempted in
\* configured order, every label already passed is recorded exactly once, in
\* the succeeded list or (with its message) in the failed list, and when the
\* run ends that is every configured label.
C2_EveryLabelAttempted ==
    doc.active =>
        /\ IsPrefix(lookups, TARGET_LABELS)
        /\ \A i \in 1..NumLabels :
              Recorded(TARGET_LABELS[i]) = IF i < idx THEN 1 ELSE 0
        /\ \A k \in 1..Len(failed) : failed[k][2] # ""
        /\ Ended => lookups = TARGET_LABELS /\ idx = NumLabels + 1

\* C2: the same for a run with an active document whose export directory
\* could be created: once the directory is there the run is not left by an
\* error, and when it ends every configured label has been looked up and
\* recorded exactly once.  A run in which os.makedirs fails ends with no
\* label attempted.
C2_EveryLabelRecorded ==
    doc.active =>
        /\ IsPrefix(lookups, TARGET_LABELS)
        /\ \A i \in 1..NumLabels :
              Recorded(TARGET_LABELS[i]) = IF i < idx THEN 1 ELSE 0
        /\ \A k \in 1..Len(failed) : failed[k][2] # ""
        /\ dirCreated => pc # "aborted"
        /\ (Ended /\ dirCreated) => lookups = TARGET_LABELS /\ idx = NumLabels + 1
        /\ (Ended /\ ~dirCreated) => lookups = <<>> /\ idx = 1

\* a finished run in which a label failed and a later label succeeded
C2_Witness ==
    /\ pc = "done" /\ doc.active /\ dirCreated
    /\ \E i \in 1..NumLabels : \E j \in (i + 1)..NumLabels :
          /\ TARGET_LABELS[i] \in Range(FailedLabels)
          /\ TARGET_LABELS[j] \in Range(processed)

\* the body found for label l has a Tip with a shape and colours, and the two
\* counts differ
Mismatched(l) ==
    LET r == Resolved(l)
        t == r.value.Tip
    IN  /\ r.ok
        /\ t.exists /\ t.hasShape /\ t.hasDiffuseColor
        /\ Len(t.DiffuseColor) # Len(t.Faces)

\* C5: when the number of colours differs from the number of faces the
\* target fails with the count-mismatch error: no face group is computed for
\* it, no file is written for it, it is recorded as failed and not as
\* succeeded, and the later labels are still processed.
C5_CountMismatchFails ==
    \A i \in 1..NumLabels :
        LET l == TARGET_LABELS[i]
            t == Resolved(l).value.Tip
        IN  Mismatched(l) =>
              /\ idx = i => pc \notin {"classify", "inlet", "outlet", "body"}
              /\ WritesOf(l) = <<>>
              /\ l \notin Range(processed)
              /\ i < idx =>
                    <<l, CountMismatch(Len(t.DiffuseColor), Len(t.Faces))>> \in Range(failed)
              /\ pc = "done" =>
                    \A j \in (i + 1)..NumLabels : Recorded(TARGET_LABELS[j]) = 1

\* a finished run where a body with more colours than faces failed and a
\* later label succeeded
C5_Witness ==
    /\ pc = "done"
    /\ \E i \in 1..NumLabels : \E j \in (i + 1)..NumLabels :
          /\ Mismatched(TARGET_LABELS[i])
          /\ Len(Resolved(TARGET_LABELS[i]).value.Tip.DiffuseColor)
                > Len(Resolved(TARGET_LABELS[i]).value.Tip.Faces)
          /\ TARGET_LABELS[i] \in Range(FailedLabels)
          /\ TARGET_LABELS[j] \in Range(processed)

\* some top-level object with the label is a PartDesign::Body
HasDirect(l) ==
    \E k \in 1..Len(doc.Objects) :
        doc.Objects[k].Label = l /\ doc.Objects[k].TypeId = BodyType

\* C6: whenever a top-level object with the requested label is a direct
\* container (PartDesign::Body), the lookup does not fail and returns a
\* top-level direct container with that label, wherever a grouping object
\* with the same label stands in the document.
C6_DirectPrecedence ==
    \A k \in 1..Len(lookups) :
        LET l == lookups[k]
            r == Resolved(l)
        IN  HasDirect(l) =>
              /\ r.ok
              /\ r.value.TypeId = BodyType
              /\ r.value.Label = l
              /\ r.value \in Range(doc.Objects)

\* the face ids handed to the export main is about to run
CurrentIds ==
    IF pc = "inlet" THEN inlet_ids ELSE IF pc = "outlet" THEN outlet_ids ELSE body_ids

C7_Step ==
    pc \in Suffixes =>
        LET n == Len(writes') - Len(writes)
            thrown == failed' # failed
        IN  /\ IsPrefix(writes, writes')
            /\ n \in {0, 1}
            /\ ~thrown => n = (IF CurrentIds = <<>> THEN 0 ELSE 1)
            /\ CurrentIds = <<>> => ~thrown /\ n = 0
            /\ (thrown /\ failed'[Len(failed')][2] \in PreWriteErrors) => n = 0
            /\ n = 1 =>
                  writes'[Len(writes')] =
                      [target |-> target_label,
                       path |-> StlPath(body.Label, pc)]

\* C7: a call of mesh_faces that returns normally with a non-empty face list
\* has written exactly one file; with an empty face list it returns without
\* error and writes nothing, and the target is not marked failed; when a step
\* before the write (transform, shell, meshing) raises, nothing was written.
C7_WritesOneOrNothing == [][C7_Step]_vars

\* a finished run where one target succeeded with a single file (its other
\* groups were skipped) and another failed before the write with no file
C7_Witness ==
    /\ pc = "done"
    /\ \E l \in Range(processed) : Len(WritesOf(l)) = 1
    /\ \E k \in 1..Len(failed) :
          failed[k][2] \in PreWriteErrors /\ WritesOf(failed[k][1]) = <<>>

\* C8 as stated: every file written while processing label L is L_inlet.stl,
\* L_outlet.stl or L_body.stl in EXPORT_DIR, at most three per target, and
\* two distinct labels never write the same path.
C8_NamedByTargetLabel ==
    /\ \A k \in 1..Len(writes) :
          writes[k].path \in
              {StlPath(writes[k].target, s) : s \in Suffixes}
    /\ \A i \in 1..NumLabels : Cardinality(Range(WritesOf(TARGET_LABELS[i]))) <= 3
    /\ \A j, k \in 1..Len(writes) :
          writes[j].target # writes[k].target => writes[j].path # writes[k].path

\* C8 amended: every file written while processing label L is B_inlet.stl,
\* B_outlet.stl or B_body.stl in EXPORT_DIR, where B is the label of the body
\* the lookup of L returned (B = L when the lookup returned a top-level body
\* itself); at most three per target; two distinct labels write the same
\* path only if their bodies carry the same label.
C8_NamedBySolidLabel ==
    /\ \A k \in 1..Len(writes) :
          LET r == Resolved(writes[k].target)
          IN  /\ r.ok
              /\ writes[k].path \in
                    {StlPath(r.value.Label, s) : s \in Suffixes}
              /\ LET i == FirstWithLabel(doc.Objects, writes[k].target)
                 IN  doc.Objects[i].TypeId = BodyType => r.value.Label = writes[k].target
    /\ \A i \in 1..NumLabels : Cardinality(Range(WritesOf(TARGET_LABELS[i]))) <= 3
    /\ \A j, k \in 1..Len(writes) :
          (writes[j].target # writes[k].target /\ writes[j].path = writes[k].path)
          => Resolved(writes[j].target).value.Label = Resolved(writes[k].target).value.Label

\* two labels naming grouping objects have written the same path
C8_Witness ==
    \E j, k \in 1..Len(writes) :
        /\ writes[j].target # writes[k].target
        /\ writes[j].path = writes[k].path
        /\ Resolved(writes[j].target).value.Label # writes[j].target

\* C9 as stated: without an active document main stops before the loop: no
\* label is looked up or recorded and no file is written; with an active
\* document main never stops that way, whatever fails.
C9_NoDocumentAborts ==
    /\ ~doc.active =>
          /\ pc \in {"start", "get_doc", "aborted"}
          /\ lookups = <<>> /\ processed = <<>> /\ failed = <<>> /\ writes = <<>>
    /\ doc.active => pc # "aborted"

\* C9: without an active document main stops before the loop: no label is
\* looked up or recorded and no file is written.  The run is stopped by an
\* error in two cases only, both before the first target: os.makedirs could
\* not create the export directory, or there is no active document; with
\* the directory created and a document active main never stops that way.
C9_AbortsBeforeLoop ==
    /\ ~doc.active =>
          /\ pc \in {"start", "get_doc", "aborted"}
          /\ lookups = <<>> /\ processed = <<>> /\ failed = <<>> /\ writes = <<>>
    /\ pc = "aborted" =>
          /\ ~dirCreated \/ ~doc.active
          /\ idx = 1
          /\ lookups = <<>> /\ processed = <<>> /\ failed = <<>> /\ writes = <<>>
    /\ (doc.active /\ dirCreated) => pc # "aborted"

\* main has stopped for want of a document, the directory being there
C9_Witness == pc = "aborted" /\ ~doc.active /\ dirCreated

\* the face groups of a body with the Tip t under the configured colours and
\* tolerance (empty if its colours cannot be read), worked out once per Tip
TipGroups ==
    [t \in Tips |->
        LET fc == get_face_colors(Obj(BodyType, "", <<>>, t))
        IN  IF fc.ok
            THEN classify_faces(fc.faces, fc.colors, INLET_COLOR, OUTLET_COLOR,
                                COLOR_TOLERANCE)
            ELSE Groups(<<>>, <<>>, <<>>)]

\* the face groups of the body label l resolves to (empty if there is none)
GroupsOf(l) ==
    LET r == Resolved(l)
    IN  IF r.ok THEN TipGroups[r.value.Tip] ELSE Groups(<<>>, <<>>, <<>>)

PathIf(label, ids, suffix) ==
    IF ids = <<>> THEN <<>> ELSE <<StlPath(label, suffix)>>

\* the files of label l when every export succeeds, in the order they are written
Expected(l) ==
    LET g == GroupsOf(l)
        b == Resolved(l).value.Label
    IN  PathIf(b, g.inlet, "inlet") \o PathIf(b, g.outlet, "outlet")
        \o PathIf(b, g.body, "body")

C10_Inv ==
    \A i \in 1..NumLabels :
        LET l == TARGET_LABELS[i]
            w == WritesOf(l)
        IN  /\ i > idx => w = <<>>
            /\ l \in Range(FailedLabels) => l \notin Range(processed)
            /\ w # <<>> \/ l \in Range(processed) =>
                  LET e == Expected(l)
                  IN  /\ IsPrefix(w, e)
                      /\ l \in Range(processed) => w = e

C10_Step ==
    /\ IsPrefix(writes, writes')
    /\ \A k \in (Len(writes) + 1)..Len(writes') : writes'[k].target = target_label
    /\ failed' # failed => idx' = idx + 1 /\ processed' = processed

\* C10: the groups of a target are exported in the order inlet, outlet, body
\* and nothing is rolled back: the files a target has written are always a
\* prefix of the files of its non-empty groups in that order, a failure ends
\* the target (it is recorded as failed, not as succeeded, and writes no
\* more), files once written stay, and a target is in the succeeded list
\* only with all its non-empty groups written.
C10_OrderNoRollback == [](C10_Inv) /\ [][C10_Step]_vars

\* a finished run with a failed target that left some but not all of its files
C10_Witness ==
    /\ pc = "done"
    /\ \E k \in 1..Len(failed) :
          /\ failed[k][2] \in PreWriteErrors
          /\ WritesOf(failed[k][1]) # <<>>
          /\ Len(WritesOf(failed[k][1])) < Len(Expected(failed[k][1]))

====
